---- MODULE Spec2Model ----
(***************************************************************************)
(* A model of mcp-bioforensics: CSV ingestion into the trial store         *)
(* (ingest/loaders.py), the FAISS index build (index/faiss_store.py,       *)
(* index/embed.py) and hybrid retrieval (retrieval/hybrid.py, server.py).  *)
(*                                                                         *)
(* Python strings are sequences of one-character strings, so that          *)
(* lower(), upper(), strip(), split() and substring tests are computed.    *)
(***************************************************************************)
EXTENDS Integers, Sequences, FiniteSets, TLC

(***************************************************************************)
(* Bounds of the model.                                                    *)
(***************************************************************************)
MaxRows == 2      \* rows in one import file
MaxDay == 1       \* last calendar day the clock reaches
MaxTopK == 2      \* largest result limit asked for
MaxBuilds == 2    \* index builds in one behaviour
MaxPad == 1       \* blanks on each side of a phase text

(***************************************************************************)
(* Characters and Python string methods.                                   *)
(***************************************************************************)
LowerLetters ==
    << "a", "b", "c", "d", "e", "f", "g", "h", "i", "j", "k", "l", "m",
       "n", "o", "p", "q", "r", "s", "t", "u", "v", "w", "x", "y", "z" >>

UpperLetters ==
    << "A", "B", "C", "D", "E", "F", "G", "H", "I", "J", "K", "L", "M",
       "N", "O", "P", "Q", "R", "S", "T", "U", "V", "W", "X", "Y", "Z" >>

Digits == << "0", "1", "2", "3", "4", "5", "6", "7", "8", "9" >>

IndexIn(seq, c) == CHOOSE i \in 1..Len(seq) : seq[i] = c

IsIn(seq, c) == \E i \in 1..Len(seq) : seq[i] = c

lower_ch(c) == IF IsIn(UpperLetters, c) THEN LowerLetters[IndexIn(UpperLetters, c)] ELSE c

upper_ch(c) == IF IsIn(LowerLetters, c) THEN UpperLetters[IndexIn(LowerLetters, c)] ELSE c

\* str.lower()
lower(s) == [i \in 1..Len(s) |-> lower_ch(s[i])]

\* str.upper()
upper(s) == [i \in 1..Len(s) |-> upper_ch(s[i])]

IsSpace(c) == c = " "

\* str.strip()
strip(s) ==
    LET keep == {i \in 1..Len(s) : ~IsSpace(s[i])}
    IN  IF keep = {} THEN << >>
        ELSE LET first == CHOOSE i \in keep : \A j \in keep : i <= j
                 last == CHOOSE i \in keep : \A j \in keep : j <= i
             IN  SubSeq(s, first, last)

\* str.capitalize(): first character upper-cased, the rest lower-cased
capitalize(s) ==
    [i \in 1..Len(s) |-> IF i = 1 THEN upper_ch(s[i]) ELSE lower_ch(s[i])]

\* sub in s
contains(sub, s) ==
    \E i \in 0..(Len(s) - Len(sub)) : SubSeq(s, i + 1, i + Len(sub)) = sub

\* s.replace(c, "")
RECURSIVE remove_ch(_, _)
remove_ch(s, c) ==
    IF s = << >> THEN << >>
    ELSE IF Head(s) = c THEN remove_ch(Tail(s), c)
    ELSE << Head(s) >> \o remove_ch(Tail(s), c)

\* s.split(c): always at least one token
RECURSIVE split(_, _)
split(s, c) ==
    IF ~IsIn(s, c) THEN << s >>
    ELSE LET i == CHOOSE k \in 1..Len(s) : s[k] = c /\ \A j \in 1..(k - 1) : s[j] # c
         IN  << SubSeq(s, 1, i - 1) >> \o split(SubSeq(s, i + 1, Len(s)), c)

\* s.split(c, 1): the part before the first c and the whole rest
split1(s, c) ==
    LET i == CHOOSE k \in 1..Len(s) : s[k] = c /\ \A j \in 1..(k - 1) : s[j] # c
    IN  << SubSeq(s, 1, i - 1), SubSeq(s, i + 1, Len(s)) >>

Range(seq) == {seq[i] : i \in 1..Len(seq)}

IsDigits(s) == s # << >> /\ \A i \in 1..Len(s) : IsIn(Digits, s[i])

RECURSIVE DigitsToNat(_)
DigitsToNat(s) ==
    IF s = << >> THEN 0
    ELSE 10 * DigitsToNat(SubSeq(s, 1, Len(s) - 1)) + (IndexIn(Digits, s[Len(s)]) - 1)

RECURSIVE NatToDigits(_)
NatToDigits(n) ==
    IF n < 10 THEN << Digits[n + 1] >>
    ELSE NatToDigits(n \div 10) \o << Digits[(n % 10) + 1] >>

\* zero-padded to at least w digits (the %04d / %02d of date.isoformat)
RECURSIVE PadLeft(_, _)
PadLeft(s, w) == IF Len(s) >= w THEN s ELSE PadLeft(<< "0" >> \o s, w)

(***************************************************************************)
(* Python values held by DataFrame cells and record fields.                *)
(***************************************************************************)
NoneV == [t |-> "None", s |-> << >>, v |-> 0]

NaN == [t |-> "float_nan", s |-> << >>, v |-> 0]

Str(chars) == [t |-> "str", s |-> chars, v |-> 0]

IntV(n) == [t |-> "int", s |-> << >>, v |-> n]

\* datetime.date(y, m, d), v = 10000*y + 100*m + d
DateV(y, m, d) == [t |-> "date", s |-> << >>, v |-> (10000 * y) + (100 * m) + d]

\* str(x)
py_str(x) ==
    CASE x.t = "str" -> x.s
      [] x.t = "None" -> << "N", "o", "n", "e" >>
      [] x.t = "float_nan" -> << "n", "a", "n" >>
      [] x.t = "int" ->
            IF x.v < 0 THEN << "-" >> \o NatToDigits(0 - x.v) ELSE NatToDigits(x.v)
      [] x.t = "date" ->
            PadLeft(NatToDigits(x.v \div 10000), 4) \o << "-" >>
            \o PadLeft(NatToDigits((x.v \div 100) % 100), 2) \o << "-" >>
            \o PadLeft(NatToDigits(x.v % 100), 2)

s_nan == << "n", "a", "n" >>
s_none == << "n", "o", "n", "e" >>
s_null == << "n", "u", "l", "l" >>

(***************************************************************************)
(* ingest/loaders.py: the value normalizers.                               *)
(***************************************************************************)
_coerce_str(x) ==
    IF x.t = "None" THEN << >>
    ELSE LET s == py_str(x)
         IN  IF lower(s) \in {s_nan, s_none, s_null} THEN << >> ELSE strip(s)

\* float(s) followed by int(): sign, digits, optional fraction; anything else
\* raises ValueError.  Returns <<ok, value>>.
ParseIntOfFloat(s) ==
    LET neg == s # << >> /\ Head(s) = "-"
        body == IF s # << >> /\ Head(s) \in {"-", "+"} THEN Tail(s) ELSE s
        parts == split(body, ".")
        whole == parts[1]
        frac == IF Len(parts) = 2 THEN parts[2] ELSE << >>
        ok == /\ Len(parts) <= 2
              /\ \A i \in 1..Len(body) : IsIn(Digits, body[i]) \/ body[i] = "."
              /\ (whole # << >> \/ frac # << >>)
        mag == IF whole = << >> THEN 0 ELSE DigitsToNat(whole)
    IN  IF ok THEN << TRUE, IF neg THEN 0 - mag ELSE mag >> ELSE << FALSE, 0 >>

_coerce_int(x, default) ==
    CASE x.t = "None" -> default
      [] x.t = "int" -> x.v
      [] x.t = "float_nan" -> default
      [] OTHER ->
            LET s == remove_ch(strip(py_str(x)), ",")
            IN  IF lower(s) \in {s_nan, << >>, s_none, s_null} THEN default
                ELSE LET p == ParseIntOfFloat(s)
                     IN  IF p[1] THEN p[2] ELSE default

IsLeap(y) == (y % 4 = 0 /\ y % 100 # 0) \/ y % 400 = 0

DaysIn(y, m) ==
    IF m = 2 THEN (IF IsLeap(y) THEN 29 ELSE 28)
    ELSE IF m \in {4, 6, 9, 11} THEN 30 ELSE 31

\* the date of the fields y, m, d; NoneV when there is no such day
DateOrNone(y, m, d) ==
    IF y >= 1 /\ m \in 1..12 /\ d \in 1..DaysIn(y, m) THEN DateV(y, m, d) ELSE NoneV

StrpFields(f, iy, im, id) ==
    IF /\ Len(f) = 3
       /\ \A i \in 1..3 : IsDigits(f[i])
       /\ Len(f[iy]) = 4
       /\ Len(f[im]) \in {1, 2}
       /\ Len(f[id]) \in {1, 2}
    THEN DateOrNone(DigitsToNat(f[iy]), DigitsToNat(f[im]), DigitsToNat(f[id]))
    ELSE NoneV

\* datetime.strptime(s, fmt) for the numeric formats: the fields of s between
\* sep, of which field iy is %Y, im is %m and id is %d.  NoneV when it raises.
StrpNumeric(s, sep, iy, im, id) == StrpFields(split(s, sep), iy, im, id)

\* the first format that parses, None when none does
FirstParsed(dates) ==
    IF \A i \in 1..Len(dates) : dates[i] = NoneV THEN NoneV
    ELSE dates[CHOOSE i \in 1..Len(dates) :
                  dates[i] # NoneV /\ \A j \in 1..(i - 1) : dates[j] = NoneV]

\* loaders.py:56-69.  The formats are tried in the listed order; the two
\* month-name formats ("%b %d, %Y", "%B %d, %Y") match no string without a comma.
ParseDateText(s) ==
    IF s = << >> \/ IsIn(s, ",") THEN NoneV
    ELSE FirstParsed(<< StrpNumeric(s, "-", 1, 2, 3), StrpNumeric(s, "-", 3, 2, 1),
                        StrpNumeric(s, "/", 3, 1, 2), StrpNumeric(s, "/", 1, 2, 3) >>)

_parse_date(x) == IF x.t = "None" THEN NoneV ELSE ParseDateText(_coerce_str(x))

\* the alias table of _normalize_phase, as (alias, token) pairs
PHASE1 == << "P", "H", "A", "S", "E", "1" >>
PHASE2 == << "P", "H", "A", "S", "E", "2" >>
PHASE3 == << "P", "H", "A", "S", "E", "3" >>
PHASE4 == << "P", "H", "A", "S", "E", "4" >>
PHASE1_2 == PHASE1 \o << "|" >> \o PHASE2
PHASE2_3 == PHASE2 \o << "|" >> \o PHASE3
EARLY_PHASE1 == << "E", "A", "R", "L", "Y", "_" >> \o PHASE1
NOT_APPLICABLE == << "N", "O", "T", "_", "A", "P", "P", "L", "I", "C", "A", "B", "L", "E" >>

phase_sp == << "p", "h", "a", "s", "e", " " >>

PhaseCore ==
    { << << "1" >>, PHASE1 >>, << phase_sp \o << "1" >>, PHASE1 >>,
      << << "i" >>, PHASE1 >>, << phase_sp \o << "i" >>, PHASE1 >>,
      << << "2" >>, PHASE2 >>, << phase_sp \o << "2" >>, PHASE2 >>,
      << << "i", "i" >>, PHASE2 >>, << phase_sp \o << "i", "i" >>, PHASE2 >>,
      << << "3" >>, PHASE3 >>, << phase_sp \o << "3" >>, PHASE3 >>,
      << << "i", "i", "i" >>, PHASE3 >>, << phase_sp \o << "i", "i", "i" >>, PHASE3 >>,
      << << "4" >>, PHASE4 >>, << phase_sp \o << "4" >>, PHASE4 >>,
      << << "i", "v" >>, PHASE4 >>, << phase_sp \o << "i", "v" >>, PHASE4 >>,
      << << "1", "/", "2" >>, PHASE1_2 >>,
      << phase_sp \o << "1", "/", "2" >>, PHASE1_2 >>,
      << << "i", "/", "i", "i" >>, PHASE1_2 >>,
      << << "2", "/", "3" >>, PHASE2_3 >>,
      << phase_sp \o << "2", "/", "3" >>, PHASE2_3 >>,
      << << "i", "i", "/", "i", "i", "i" >>, PHASE2_3 >>,
      << << "e", "a", "r", "l", "y", " " >> \o phase_sp \o << "1" >>, EARLY_PHASE1 >> }

LoaderPhaseMapping ==
    PhaseCore \cup
    { << << "n", "o", "t", " ", "a", "p", "p", "l", "i", "c", "a", "b", "l", "e" >>,
         NOT_APPLICABLE >>,
      << << "n", "/", "a" >>, NOT_APPLICABLE >>,
      << << "n", "a" >>, NOT_APPLICABLE >>,
      << << "o", "b", "s", "e", "r", "v", "a", "t", "i", "o", "n", "a", "l" >>,
         NOT_APPLICABLE >> }

\* mapping.get(s, dflt)
MapGet(mapping, s, dflt) ==
    IF \E p \in mapping : p[1] = s THEN (CHOOSE p \in mapping : p[1] = s)[2] ELSE dflt

_normalize_phase(phase) ==
    LET s == lower(_coerce_str(phase))
    IN  IF s = << >> THEN << >> ELSE MapGet(LoaderPhaseMapping, s, upper(s))

_normalize_status(status) ==
    LET s == _coerce_str(status)
    IN  IF s # << >> THEN capitalize(s) ELSE << >>

(***************************************************************************)
(* pandas.read_csv as ingest_csv uses it (loaders.py:208): a cell whose    *)
(* text is one of the default NA strings becomes NaN, an all-digit cell    *)
(* becomes a number, every other cell keeps its text unchanged (no         *)
(* stripping).                                                             *)
(***************************************************************************)
PandasNaTexts ==
    { << >>, s_nan, s_null,
      << "N", "a", "N" >>, << "N", "A" >>, << "N", "/", "A" >>, << "n", "/", "a" >>,
      << "N", "U", "L", "L" >>, << "N", "o", "n", "e" >>,
      << "#", "N", "/", "A" >>, << "#", "N", "A" >>, << "<", "N", "A", ">" >>,
      << "-", "N", "a", "N" >>, << "-", "n", "a", "n" >> }

ReadCell(text) ==
    IF text \in PandasNaTexts THEN NaN
    ELSE IF IsDigits(text) THEN IntV(DigitsToNat(text))
    ELSE Str(text)

\* A DataFrame: the column names in order and one function column -> value per row.
read_csv(file) ==
    [cols |-> file.cols,
     rows |-> [k \in 1..Len(file.rows) |->
                 [c \in Range(file.cols) |->
                     ReadCell(file.rows[k][IndexIn(file.cols, c)])]]]

canon_cols ==
    << "trial_id", "disease", "phase", "n_participants", "summary",
       "outcomes_text", "status", "sponsor", "start_date", "end_date" >>

aliases ==
    [trial_id |-> << "nct_id", "nct number", "nct", "trial_id", "trialid",
                     "trial id", "id", "study_id", "study id" >>,
     disease |-> << "condition", "conditions", "disease", "indication" >>,
     phase |-> << "phase", "phases", "trial_phase", "study_phase", "phase(s)",
                  "study phase", "trial phase" >>,
     n_participants |-> << "enrollment", "enrollment count", "participants",
                           "n_participants", "num_participants",
                           "number_participants", "sample_size" >>,
     summary |-> << "brief_summary", "brief summary", "summary", "description",
                    "overview" >>,
     outcomes_text |-> << "primary outcome measures", "secondary outcome measures",
                          "outcomes", "other outcome measures", "outcomes_text",
                          "results" >>,
     status |-> << "overall_status", "recruitment_status", "status", "trial_status" >>,
     sponsor |-> << "sponsor", "lead sponsor", "sponsors", "funder", "funding_source" >>,
     start_date |-> << "start_date", "study start", "study start date", "start",
                       "begin_date", "date_started" >>,
     end_date |-> << "completion_date", "primary completion date", "end_date", "end",
                     "date_completed" >>]

\* col.lower() for the header names the import files use
col_lower(col) ==
    CASE col = "NCT_ID" -> "nct_id"
      [] col = "Condition" -> "condition"
      [] col = "Phases" -> "phases"
      [] col = "Enrollment" -> "enrollment"
      [] col = "Site" -> "site"
      [] OTHER -> col

\* df_cols_lower[name]: the last column whose lower-cased name is `name`
df_cols_lower(cols, name) ==
    cols[CHOOSE i \in 1..Len(cols) :
            /\ col_lower(cols[i]) = name
            /\ \A j \in (i + 1)..Len(cols) : col_lower(cols[j]) # name]

\* an auto-mapper that takes the last alias present instead of the first
AutoMapLastAlias(cols) ==
    LET lowered == {col_lower(cols[i]) : i \in 1..Len(cols)}
        hit(canon) == {i \in 1..Len(aliases[canon]) : aliases[canon][i] \in lowered}
        last(canon) == CHOOSE i \in hit(canon) : \A j \in hit(canon) : i >= j
    IN  [canon \in {c \in Range(canon_cols) : hit(c) # {}} |->
            df_cols_lower(cols, aliases[canon][last(canon)])]

\* A mapping is a function from some canonical fields to source columns.
_auto_map_columns(cols) ==
    LET lowered == {col_lower(cols[i]) : i \in 1..Len(cols)}
        hit(canon) == {i \in 1..Len(aliases[canon]) : aliases[canon][i] \in lowered}
        first(canon) == CHOOSE i \in hit(canon) : \A j \in hit(canon) : i <= j
    IN  [canon \in {c \in Range(canon_cols) : hit(c) # {}} |->
            df_cols_lower(cols, aliases[canon][first(canon)])]

\* mapping.get(c): "" stands for None (both are falsy at loaders.py:231)
mapping_get(mapping, c) == IF c \in DOMAIN mapping THEN mapping[c] ELSE ""

\* loaders.py:227-232, for canon_cols[i..]: add a missing canonical column
\* holding None, then copy the mapped source column over it.
RECURSIVE FillCanonical(_, _, _)
FillCanonical(df, mapping, i) ==
    IF i > Len(canon_cols) THEN df
    ELSE LET c == canon_cols[i]
             present == c \in Range(df.cols)
             cols1 == IF present THEN df.cols ELSE Append(df.cols, c)
             rows1 == [k \in 1..Len(df.rows) |->
                         IF present THEN df.rows[k] ELSE (c :> NoneV) @@ df.rows[k]]
             src == mapping_get(mapping, c)
             rows2 == IF src # "" /\ src \in Range(cols1)
                      THEN [k \in 1..Len(rows1) |-> [rows1[k] EXCEPT ![c] = rows1[k][src]]]
                      ELSE rows1
         IN  FillCanonical([cols |-> cols1, rows |-> rows2], mapping, i + 1)

\* loaders.py:235-246 on one row
NormalizeRow(row) ==
    [row EXCEPT
        !["trial_id"] = Str(_coerce_str(@)),
        !["disease"] = Str(_coerce_str(@)),
        !["phase"] = Str(_normalize_phase(@)),
        !["status"] = Str(_normalize_status(@)),
        !["summary"] = Str(_coerce_str(@)),
        !["outcomes_text"] = Str(_coerce_str(@)),
        !["sponsor"] = Str(_coerce_str(@)),
        !["n_participants"] = IntV(_coerce_int(@, 0)),
        !["start_date"] = _parse_date(@),
        !["end_date"] = _parse_date(@)]

\* a filter that also drops the rows without a disease
DropMissingIdOrDisease(rows) ==
    SelectSeq(rows, LAMBDA r : r["trial_id"] # Str(<< >>) /\ r["disease"] # Str(<< >>))

\* loaders.py:249
DropMissingId(rows) == SelectSeq(rows, LAMBDA r : r["trial_id"] # Str(<< >>))

\* loaders.py:208-249: the frame the upsert loop iterates over
PreparedFrame(file, mapping) ==
    LET df == FillCanonical(read_csv(file), mapping, 1)
    IN  [cols |-> df.cols,
         rows |-> DropMissingId([k \in 1..Len(df.rows) |-> NormalizeRow(df.rows[k])])]

\* loaders.py:259-278 and the `extras or None` of line 292
BuildExtras(row, cols) ==
    LET items == {<< col, row[col] >> :
                    col \in {c \in Range(cols) :
                                /\ c \notin Range(canon_cols)
                                /\ row[c].t \notin {"None", "float_nan"}}}
    IN  [isNone |-> items = {}, items |-> items]

\* loaders.py:280-293: the Trial built from one row of the prepared frame
TrialOfRow(dataset_id, row, cols) ==
    [dataset_id |-> dataset_id,
     trial_id |-> _coerce_str(row["trial_id"]),
     disease |-> _coerce_str(row["disease"]),
     phase |-> _coerce_str(row["phase"]),
     n_participants |-> _coerce_int(row["n_participants"], 0),
     summary |-> _coerce_str(row["summary"]),
     outcomes_text |-> _coerce_str(row["outcomes_text"]),
     status |-> _coerce_str(row["status"]),
     sponsor |-> _coerce_str(row["sponsor"]),
     start_date |-> _parse_date(row["start_date"]),
     end_date |-> _parse_date(row["end_date"]),
     extras |-> BuildExtras(row, cols)]

\* the primary key of db/models.py Trial
TrialKey(t) == << t.dataset_id, t.trial_id >>

(***************************************************************************)
(* The state: the two tables of the record store, the calendar, the two    *)
(* persisted index artifacts and the outcome of the last operation.        *)
(***************************************************************************)
VARIABLES
    store,       \* table trials: (dataset_id, trial_id) -> Trial row
    registry,    \* table dataset_registry: dataset_id -> DatasetRegistry row
    today,       \* date.today(), as a day number
    index_file,  \* the FAISS index file, or NoFile
    ids_file,    \* the sidecar ids file, or NoFile
    builds,      \* build_index calls made so far
    ret          \* what the call in progress hands to its caller, or NoRet

vars == << store, registry, today, index_file, ids_file, builds, ret >>

NoFile == [exists |-> FALSE]

NoRet == [op |-> "none", raised |-> FALSE]

\* Operations run one at a time (spec section 5): a call starts only after the
\* caller has taken the previous call's outcome.
Idle == ret = NoRet

(***************************************************************************)
(* The inputs of ingest_csv.                                               *)
(***************************************************************************)
d1 == << "d", "1" >>
d2 == << "d", "2" >>
Datasets == {d1, d2}

HeaderCanon == << "trial_id", "disease", "phase", "n_participants", "status", "Site" >>

t_Glioma == << "G", "l", "i", "o", "m", "a" >>
t_completed == << "c", "o", "m", "p", "l", "e", "t", "e", "d" >>

\* trial A with every column filled; phase 1/2
RowFull == << << "A" >>, t_Glioma, << "1", "/", "2" >>, << "1", "0", "0" >>,
              t_completed, << "x" >> >>
\* trial A again with the optional columns left empty
RowBare == << << "A" >>, << >>, << "I", "I" >>, << "5" >>, << >>, << >> >>
\* trial B, phase 2
RowB == << << "B" >>, << >>, << "i", "i" >>, << "5" >>, << >>, << >> >>
\* a trial_id cell that is the text nan with blanks around it
RowPaddedNan == << << " ", "n", "a", "n", " " >>, t_Glioma, << "2" >>, << "7" >>,
                   t_completed, << >> >>
\* a trial_id cell pandas reads as missing
RowNoId == << << "N", "A" >>, t_Glioma, << "3" >>, << "9" >>, t_completed, << "y" >> >>

\* the rows the specifications over HeaderCanon build their import files from
IngestRows == {RowFull, RowBare, RowB, RowPaddedNan}

RegistryRows == {RowFull, RowNoId}

SearchRows == {RowFull, RowB}

RECURSIVE SeqsUpTo(_, _)
SeqsUpTo(S, n) ==
    IF n = 0 THEN {<< >>}
    ELSE LET shorter == SeqsUpTo(S, n - 1)
         IN  shorter \cup {Append(q, e) : q \in {r \in shorter : Len(r) = n - 1}, e \in S}

\* the import files of at most MaxRows rows over a pool of rows
Files(pool) == {[exists |-> TRUE, cols |-> HeaderCanon, rows |-> rs] :
                    rs \in SeqsUpTo(pool, MaxRows)}

IngestFiles == Files(IngestRows)

RegistryFiles == Files(RegistryRows)

\* one-row import files
SearchFiles == {[exists |-> TRUE, cols |-> HeaderCanon, rows |-> << r >>] : r \in SearchRows}

\* a header of alias names in mixed case beside canonical names: trial_id
\* and phase each have two of their aliases among the columns
HeaderAlias == << "trial_id", "NCT_ID", "Condition", "Phases", "phase", "Enrollment", "Site" >>

\* a header without an alias of trial_id
HeaderSparse == << "Condition", "Site" >>

\* rows over HeaderAlias; the Enrollment cells are a negative number, a
\* number with a thousands separator, a text and a decimal fraction
RowAliasNeg == << << "T", "1" >>, << "N", "1" >>, t_Glioma, << "3" >>, << "2" >>,
                  << "-", "5" >>, << "x" >> >>
RowAliasComma == << << "T", "2" >>, << "N", "2" >>, << >>, << "I", "I" >>, << >>,
                    << "1", ",", "0", "0", "0" >>, << >> >>
RowAliasText == << << "T", "3" >>, << "N", "1" >>, t_Glioma, << >>, << "n", "/", "a" >>,
                   << "a", "b", "c" >>, << "y" >> >>
RowAliasFraction == << << "T", "4" >>, << "N", "2" >>, << >>, << >>, << "3" >>,
                       << "1", "2", ".", "7" >>, << >> >>

AliasRows == {RowAliasNeg, RowAliasComma, RowAliasText, RowAliasFraction}

SparseRows == {<< t_Glioma, << "x" >> >>}

FilesOver(header, pool) ==
    {[exists |-> TRUE, cols |-> header, rows |-> rs] : rs \in SeqsUpTo(pool, MaxRows)}

\* import files whose columns the auto-mapper has to resolve
AliasFiles == FilesOver(HeaderAlias, AliasRows) \cup FilesOver(HeaderSparse, SparseRows)

\* the mapping argument: None (auto-map); "" stands for None
NoMapping == [isNone |-> TRUE, map |-> << >>]

\* an explicit mapping that takes disease from the Site column
SiteMapping == [isNone |-> FALSE, map |-> ("trial_id" :> "trial_id") @@ ("disease" :> "Site")]

NameArgs == {NoneV}

ImportPath == "trials.csv"

(***************************************************************************)
(* ingest_csv: the upsert loop and the commit.                             *)
(***************************************************************************)
Truthy(x) == ~(x.t = "None" \/ (x.t = "str" /\ x.s = << >>))

\* a field-level merge: an empty field of the given row keeps the stored value
MergeFieldwise(persistent, given) ==
    [given EXCEPT !.disease = IF @ = << >> THEN persistent.disease ELSE @,
                  !.status = IF @ = << >> THEN persistent.status ELSE @,
                  !.extras = IF @.isNone THEN persistent.extras ELSE @]

\* session.merge of a Trial whose row is already in the session or the table:
\* every column of the given instance was set by the constructor
\* (loaders.py:280-293), so every column is copied over the stored row.
MergeInto(persistent, given) == given

\* loaders.py:257-295 with SessionLocal's autoflush=False (db/session.py:7):
\* merge() looks the key up in the session's identity map, then in the table;
\* a key found in neither becomes a new pending row, and a pending row is not
\* in the identity map, so a second row with that key is pending too.
RECURSIVE MergeTrials(_, _, _, _)
MergeTrials(db, trials, i, sess) ==
    IF i > Len(trials) THEN sess
    ELSE LET t == trials[i]
             k == TrialKey(t)
         IN  IF k \in DOMAIN sess.identity_map
             THEN MergeTrials(db, trials, i + 1,
                      [sess EXCEPT !.identity_map[k] = MergeInto(@, t)])
             ELSE IF k \in DOMAIN db
             THEN MergeTrials(db, trials, i + 1,
                      [sess EXCEPT !.identity_map = (k :> MergeInto(db[k], t)) @@ @])
             ELSE MergeTrials(db, trials, i + 1,
                      [sess EXCEPT !.pending = Append(@, t)])

NewSession == [identity_map |-> << >>, pending |-> << >>]

\* the flush of session.commit(): two pending rows with one primary key
\* violate the key's uniqueness (IntegrityError)
FlushRaises(sess) ==
    \E i, j \in 1..Len(sess.pending) :
        i < j /\ TrialKey(sess.pending[i]) = TrialKey(sess.pending[j])

\* a failed flush that leaves the row inserted before the failure in the table
FlushedUpToFailure(db, sess) ==
    IF sess.pending = << >> THEN db
    ELSE (TrialKey(sess.pending[1]) :> sess.pending[1]) @@ db

\* loaders.py:256 and 317: commit() raised inside the `with SessionLocal()`
\* block, the flush's transaction is rolled back and the session is closed
\* without a commit; the table is as it was before the run
RolledBack(db, sess) == db

\* a commit that leaves in the table only the rows the session holds
CommittedSessionOnly(db, sess) ==
    [k \in DOMAIN sess.identity_map
              \cup {TrialKey(sess.pending[i]) : i \in 1..Len(sess.pending)} |->
        IF k \in DOMAIN sess.identity_map THEN sess.identity_map[k]
        ELSE sess.pending[CHOOSE i \in 1..Len(sess.pending) : TrialKey(sess.pending[i]) = k]]

Committed(db, sess) ==
    [k \in DOMAIN db \cup DOMAIN sess.identity_map
              \cup {TrialKey(sess.pending[i]) : i \in 1..Len(sess.pending)} |->
        IF k \in DOMAIN sess.identity_map THEN sess.identity_map[k]
        ELSE IF k \in DOMAIN db THEN db[k]
        ELSE sess.pending[CHOOSE i \in 1..Len(sess.pending) : TrialKey(sess.pending[i]) = k]]

\* a registry upsert that leaves an existing descriptor's row count alone
UpsertRegistryKeepCount(reg, dataset_id, dataset_name, path, notes, inserted, mapping, day) ==
    IF dataset_id \notin DOMAIN reg
    THEN (dataset_id :>
            [dataset_id |-> dataset_id,
             name |-> IF Truthy(dataset_name) THEN dataset_name ELSE Str(dataset_id),
             source_path |-> path,
             notes |-> notes,
             row_count |-> inserted,
             ingested_at |-> day,
             mapping_json |-> mapping]) @@ reg
    ELSE [reg EXCEPT ![dataset_id] =
            [@ EXCEPT !.name = IF Truthy(dataset_name) THEN dataset_name ELSE @,
                      !.mapping_json = mapping,
                      !.source_path = path,
                      !.notes = notes,
                      !.ingested_at = day]]

\* loaders.py:298-316
UpsertRegistry(reg, dataset_id, dataset_name, path, notes, inserted, mapping, day) ==
    IF dataset_id \notin DOMAIN reg
    THEN (dataset_id :>
            [dataset_id |-> dataset_id,
             name |-> IF Truthy(dataset_name) THEN dataset_name ELSE Str(dataset_id),
             source_path |-> path,
             notes |-> notes,
             row_count |-> inserted,
             ingested_at |-> day,
             mapping_json |-> mapping]) @@ reg
    ELSE [reg EXCEPT ![dataset_id] =
            [@ EXCEPT !.name = IF Truthy(dataset_name) THEN dataset_name ELSE @,
                      !.row_count = inserted,
                      !.mapping_json = mapping,
                      !.source_path = path,
                      !.notes = notes,
                      !.ingested_at = day]]

\* loaders.py:211-212
ResolveMapping(file, mapping_arg) ==
    IF mapping_arg.isNone THEN _auto_map_columns(file.cols) ELSE mapping_arg.map

\* the Trial objects the loop merges, in row order
ComputeTrials(file, mapping, dataset_id) ==
    LET df == PreparedFrame(file, mapping)
    IN  [k \in 1..Len(df.rows) |-> TrialOfRow(dataset_id, df.rows[k], df.cols)]

\* ComputeTrials tabulated once over every input the actions draw
TrialsRows(files, mapping_args) ==
    {<< file, mapping_arg, dataset_id,
        ComputeTrials(file, ResolveMapping(file, mapping_arg), dataset_id) >> :
        file \in files, mapping_arg \in mapping_args, dataset_id \in Datasets}

TrialsTable ==
    TrialsRows(IngestFiles \cup SearchFiles \cup AliasFiles, {NoMapping})
    \cup TrialsRows(RegistryFiles, {NoMapping, SiteMapping})

TrialsOfFile(file, mapping_arg, dataset_id) ==
    (CHOOSE e \in TrialsTable :
        e[1] = file /\ e[2] = mapping_arg /\ e[3] = dataset_id)[4]

ingest_csv(file, dataset_id, dataset_name, mapping_arg, notes) ==
    IF ~file.exists
    THEN \* pd.read_csv raises FileNotFoundError before anything is touched
         /\ ret' = [op |-> "ingest_csv", raised |-> TRUE, error |-> "FileNotFoundError",
                    dataset_id |-> dataset_id, file |-> file]
         /\ UNCHANGED << store, registry >>
    ELSE LET mapping == ResolveMapping(file, mapping_arg)
             trials == TrialsOfFile(file, mapping_arg, dataset_id)
             sess == MergeTrials(store, trials, 1, NewSession)
             inserted == Len(trials)
         IN  IF FlushRaises(sess)
             THEN \* the session closes without a commit: the transaction is rolled back
                  /\ ret' = [op |-> "ingest_csv", raised |-> TRUE,
                             error |-> "IntegrityError",
                             dataset_id |-> dataset_id, file |-> file]
                  /\ store' = RolledBack(store, sess)
                  /\ UNCHANGED registry
             ELSE /\ store' = Committed(store, sess)
                  /\ registry' = UpsertRegistry(registry, dataset_id, dataset_name,
                                     ImportPath, notes, inserted, mapping, today)
                  /\ ret' = [op |-> "ingest_csv", raised |-> FALSE, value |-> inserted,
                             dataset_id |-> dataset_id, file |-> file,
                             mapping_arg |-> mapping_arg, day |-> today]

Ingest(files, datasets, mapping_args) ==
    \E file \in files \cup {NoFile}, dataset_id \in datasets,
       dataset_name \in NameArgs, mapping_arg \in mapping_args :
        /\ Idle
        /\ ingest_csv(file, dataset_id, dataset_name, mapping_arg, NoneV)
        /\ UNCHANGED << today, index_file, ids_file, builds >>

\* midnight passes
NextDay ==
    /\ Idle
    /\ today < MaxDay
    /\ today' = today + 1
    /\ UNCHANGED << store, registry, index_file, ids_file, builds, ret >>

\* the caller takes the outcome
Return ==
    /\ ~Idle
    /\ ret' = NoRet
    /\ UNCHANGED << store, registry, today, index_file, ids_file, builds >>

(***************************************************************************)
(* index/embed.py and index/faiss_store.py: building the index artifact.   *)
(***************************************************************************)
\* the dimension build_index hard-codes for an empty corpus (faiss_store.py:78)
EmptyIndexDim == 384

\* the dimension of the default model all-MiniLM-L6-v2 (embed.py:32), which is
\* the model every query is embedded with (hybrid.py:82 passes no model_name)
DefaultModelDim == 384

\* the dimension of another model a build may name
OtherModelDim == 2 * DefaultModelDim

\* session.query(Trial) has no ORDER BY: the rows come in the table's scan
\* order, which is one fixed order of the stored keys.
RECURSIVE ScanOrder(_)
ScanOrder(keys) ==
    IF keys = {} THEN << >>
    ELSE LET k == CHOOSE x \in keys : TRUE
         IN  << k >> \o ScanOrder(keys \ {k})

\* embed.py:121-132 with the default TrialTextConfig
trial_to_text(trial) ==
    IF trial.summary # << >> /\ trial.outcomes_text # << >>
    THEN trial.summary \o << "\n" >> \o trial.outcomes_text
    ELSE trial.summary \o trial.outcomes_text

\* embed.py:148-156: the ids and, position by position, the vectors.  A vector
\* is held as the text it embeds and the row that text came from.
embed_trials(db) ==
    LET rows == ScanOrder(DOMAIN db)
    IN  [trial_ids |-> [i \in 1..Len(rows) |-> db[rows[i]].trial_id],
         vectors |-> [i \in 1..Len(rows) |->
                        [src |-> rows[i], text |-> trial_to_text(db[rows[i]])]]]

\* faiss_store.py:72-97.  `model_dim` is the dimension the model named by
\* model_name reports and embeds with.  `fail` is where the build breaks off: "embed" (the
\* model cannot be loaded), "index" (faiss.write_index raises), "ids" (the
\* ids file cannot be written, e.g. ids_path lies in a directory that does
\* not exist: only the index path's directory is created) or "none".
build_index(model_dim, fail) ==
    LET emb == embed_trials(store)
        dim == IF Len(emb.vectors) = 0 THEN EmptyIndexDim ELSE model_dim
        raised(err) == [op |-> "build_index", raised |-> TRUE, error |-> err,
                        build |-> builds + 1]
        written == [exists |-> TRUE, dim |-> dim, vectors |-> emb.vectors,
                    build |-> builds + 1]
    IN  /\ builds' = builds + 1
        /\ CASE fail = "embed" ->
                    /\ ret' = raised("ModelError")
                    /\ UNCHANGED << index_file, ids_file >>
             [] fail = "index" ->
                    /\ ret' = raised("OSError")
                    /\ UNCHANGED << index_file, ids_file >>
             [] fail = "ids" ->
                    /\ index_file' = written
                    /\ ret' = raised("FileNotFoundError")
                    /\ UNCHANGED ids_file
             [] OTHER ->
                    /\ index_file' = written
                    /\ ids_file' = [exists |-> TRUE, ids |-> emb.trial_ids,
                                    build |-> builds + 1]
                    /\ ret' = [op |-> "build_index", raised |-> FALSE,
                               dim |-> dim, count |-> Len(emb.trial_ids),
                               build |-> builds + 1, model_dim |-> model_dim]

BuildIndex(dims, fails) ==
    \E model_dim \in dims, fail \in fails :
        /\ Idle
        /\ builds < MaxBuilds
        /\ build_index(model_dim, fail)
        /\ UNCHANGED << store, registry, today >>

(***************************************************************************)
(* index/faiss_store.py: loading and searching the index artifact.         *)
(***************************************************************************)
\* a load that tests only the index file and reads a missing ids file as empty
LoadIndexUnchecked ==
    IF ~index_file.exists
    THEN [raised |-> TRUE, error |-> "FileNotFoundError"]
    ELSE [raised |-> FALSE, index |-> index_file,
          ids |-> IF ids_file.exists THEN ids_file.ids ELSE << >>]

\* faiss_store.py:106-116
load_index ==
    IF ~index_file.exists \/ ~ids_file.exists
    THEN [raised |-> TRUE, error |-> "FileNotFoundError"]
    ELSE [raised |-> FALSE, index |-> index_file, ids |-> ids_file.ids]

\* the orders in which the engine can rank the n stored vectors for a query
\* embedding, cut to the top_k best: which vectors score highest is the
\* embedding model's matter
Rankings(n, top_k) ==
    LET m == IF n < top_k THEN n ELSE top_k
    IN  {r \in [1..m -> 1..n] : \A i, j \in 1..m : i # j => r[i] # r[j]}

\* faiss_store.py:131-148 for one query text.  `ranking` lists the positions
\* index.search returns, best first; the slots it pads with -1 are skipped.
\* The score of the hit at rank j is Len(ranking) - j.
search_texts(query, top_k, ranking) ==
    LET li == load_index
    IN  IF li.raised THEN li
        ELSE IF Len(li.index.vectors) > 0 /\ li.index.dim # DefaultModelDim
        THEN [raised |-> TRUE, error |-> "AssertionError"]
        ELSE [raised |-> FALSE,
              pairs |-> [j \in 1..Len(ranking) |->
                            [id |-> IF ranking[j] <= Len(li.ids)
                                    THEN li.ids[ranking[j]] ELSE << >>,
                             score |-> Len(ranking) - j]]]

(***************************************************************************)
(* retrieval/hybrid.py                                                     *)
(***************************************************************************)
\* the floor of the candidate beam and its multiplier (hybrid.py:81)
BeamFloor == 20
BeamFactor == 5

Max(a, b) == IF a >= b THEN a ELSE b

_parse_sid_tid(raw_id) ==
    IF IsIn(raw_id, ":")
    THEN LET p == split1(raw_id, ":") IN [dsid |-> Str(p[1]), tid |-> p[2]]
    ELSE [dsid |-> NoneV, tid |-> raw_id]

\* _matches_filters without its participant-count test
MatchesFiltersNoMinimum(t, phase, disease, min_participants, status) ==
    IF Truthy(phase) /\ upper(t.phase) # upper(py_str(phase)) THEN FALSE
    ELSE IF Truthy(disease) /\ ~contains(lower(disease.s), lower(t.disease)) THEN FALSE
    ELSE IF Truthy(status) /\ ~contains(lower(status.s), lower(t.status)) THEN FALSE
    ELSE TRUE

_matches_filters(t, phase, disease, min_participants, status) ==
    IF Truthy(phase) /\ upper(t.phase) # upper(py_str(phase)) THEN FALSE
    ELSE IF Truthy(disease) /\ ~contains(lower(disease.s), lower(t.disease)) THEN FALSE
    ELSE IF min_participants.t # "None" /\ t.n_participants < min_participants.v THEN FALSE
    ELSE IF Truthy(status) /\ ~contains(lower(status.s), lower(t.status)) THEN FALSE
    ELSE TRUE

\* scalar_one_or_none(): no row gives None, one row gives the row, more than
\* one row raises MultipleResultsFound
_fetch_trial(db, raw_id) ==
    LET p == _parse_sid_tid(raw_id)
        rows == {k \in DOMAIN db :
                    k[2] = p.tid /\ (Truthy(p.dsid) => k[1] = p.dsid.s)}
    IN  IF Cardinality(rows) > 1
        THEN [raised |-> TRUE, found |-> FALSE]
        ELSE IF rows = {} THEN [raised |-> FALSE, found |-> FALSE]
        ELSE [raised |-> FALSE, found |-> TRUE, trial |-> db[CHOOSE k \in rows : TRUE]]

\* a result that carries its rank's distance from the top instead of the hit's score
HybridResultRescored(trial, score) ==
    [dataset_id |-> trial.dataset_id,
     trial_id |-> trial.trial_id,
     disease |-> trial.disease,
     phase |-> trial.phase,
     n_participants |-> trial.n_participants,
     score |-> 0 - score]

HybridResult(trial, score) ==
    [dataset_id |-> trial.dataset_id,
     trial_id |-> trial.trial_id,
     disease |-> trial.disease,
     phase |-> trial.phase,
     n_participants |-> trial.n_participants,
     score |-> score]

\* hybrid.py:90-113 from candidate i on
RECURSIVE CollectResults(_, _, _, _, _)
CollectResults(db, candidates, i, args, results) ==
    IF i > Len(candidates) THEN [raised |-> FALSE, value |-> results]
    ELSE LET f == _fetch_trial(db, candidates[i].id)
         IN  IF f.raised THEN [raised |-> TRUE, error |-> "MultipleResultsFound"]
             ELSE IF ~f.found THEN CollectResults(db, candidates, i + 1, args, results)
             ELSE IF ~_matches_filters(f.trial, args.phase, args.disease,
                                       args.min_participants, args.status)
             THEN CollectResults(db, candidates, i + 1, args, results)
             ELSE LET more == Append(results, HybridResult(f.trial, candidates[i].score))
                  IN  IF Len(more) >= args.top_k
                      THEN [raised |-> FALSE, value |-> more]
                      ELSE CollectResults(db, candidates, i + 1, args, more)

Beam(top_k) == Max(top_k * BeamFactor, BeamFloor)

\* hybrid.py:81-115; args = [query, phase, disease, min_participants, status, top_k]
hybrid_search(args, ranking) ==
    LET found == search_texts(args.query, Beam(args.top_k), ranking)
    IN  IF found.raised
        THEN [raised |-> TRUE, error |-> found.error, candidates |-> << >>]
        ELSE LET out == CollectResults(store, found.pairs, 1, args, << >>)
             IN  IF out.raised
                 THEN [raised |-> TRUE, error |-> out.error, candidates |-> found.pairs]
                 ELSE [raised |-> FALSE, value |-> out.value, candidates |-> found.pairs]

\* the rankings the engine can return for the index on disk
CurrentRankings(top_k) ==
    Rankings(IF index_file.exists THEN Len(index_file.vectors) ELSE 0, Beam(top_k))

(***************************************************************************)
(* server.py: the search_trials tool.                                      *)
(***************************************************************************)
DefaultTopK == 10

_norm_str(x) ==
    IF x.t = "None" THEN NoneV
    ELSE LET xs == strip(py_str(x))
         IN  IF xs = << >> \/ lower(xs) \in {s_null, s_none} THEN NoneV ELSE Str(xs)

_canon_phase(x) ==
    IF x.t = "None" THEN NoneV
    ELSE LET s == lower(strip(py_str(x)))
         IN  IF s \in {<< >>, s_null, s_none} THEN NoneV
             ELSE Str(MapGet(PhaseCore, s, upper(s)))

\* int(x) of a str: blanks stripped, a sign, digits; anything else raises
ParseInt(s) ==
    LET t == strip(s)
        neg == t # << >> /\ Head(t) = "-"
        body == IF t # << >> /\ Head(t) \in {"-", "+"} THEN Tail(t) ELSE t
    IN  IF IsDigits(body)
        THEN << TRUE, IF neg THEN 0 - DigitsToNat(body) ELSE DigitsToNat(body) >>
        ELSE << FALSE, 0 >>

\* server.py:156-185 for a payload dict without an "options" key; a key the
\* payload lacks reads as None
_parse_payload(d) ==
    LET blank == [query |-> << >>, phase |-> NoneV, disease |-> NoneV, status |-> NoneV,
                  min_participants |-> NoneV, top_k |-> DefaultTopK]
        mp == d.min_participants
        tk == d.top_k
    IN  IF d.query.t # "str" \/ strip(d.query.s) = << >> THEN blank
        ELSE [query |-> strip(d.query.s),
              phase |-> _canon_phase(d.phase),
              disease |-> _norm_str(d.disease),
              status |-> _norm_str(d.status),
              min_participants |->
                  IF mp.t = "int" THEN mp
                  ELSE IF mp.t = "str" /\ strip(mp.s) # << >> /\ ParseInt(mp.s)[1]
                  THEN IntV(ParseInt(mp.s)[2])
                  ELSE NoneV,
              top_k |->
                  IF tk.t = "int" THEN tk.v
                  ELSE IF tk.t = "str" /\ ParseInt(tk.s)[1] THEN ParseInt(tk.s)[2]
                  ELSE DefaultTopK]

\* server.py:221-223
PhasePostFilter(phase, results) ==
    IF Truthy(phase)
    THEN LET want == Range(split(upper(py_str(phase)), "|"))
         IN  SelectSeq(results,
                 LAMBDA r : r.phase # << >>
                            /\ Range(split(upper(r.phase), "|")) \cap want # {})
    ELSE results

\* server.py:205-235
search_trials(payload, ranking) ==
    LET args == _parse_payload(payload)
    IN  IF args.query = << >>
        THEN [raised |-> FALSE, value |-> << >>, args |-> args, searched |-> FALSE]
        ELSE LET h == hybrid_search(args, ranking)
             IN  IF h.raised
                 THEN [raised |-> TRUE, error |-> h.error, args |-> args,
                       searched |-> TRUE, candidates |-> h.candidates]
                 ELSE [raised |-> FALSE, value |-> PhasePostFilter(args.phase, h.value),
                       args |-> args, searched |-> TRUE, hybrid |-> h.value,
                       candidates |-> h.candidates]

(***************************************************************************)
(* The inputs of the retrieval operations.                                 *)
(***************************************************************************)
q_glioma == << "g", "l", "i", "o" >>

\* filter values as a caller of hybrid_search passes them (cli.py:49-51)
PhaseArgs == {NoneV, Str(PHASE2), Str(<< "p", "h", "a", "s", "e", "2" >>), Str(PHASE1_2)}
DiseaseArgs == {NoneV, Str(<< "G", "L", "I", "O" >>)}
StatusArgs == {NoneV, Str(<< "c", "o", "m", "p" >>)}
MinArgs == {NoneV, IntV(6)}

HybridArgs ==
    [query : {q_glioma}, phase : PhaseArgs, disease : DiseaseArgs, status : StatusArgs,
     min_participants : MinArgs, top_k : 0..MaxTopK]
    \cup [query : {<< >>}, phase : {NoneV}, disease : {NoneV}, status : {NoneV},
          min_participants : {NoneV}, top_k : {MaxTopK}]

\* phase values as a payload carries them, before _canon_phase
PayloadPhases == {NoneV, Str(<< "I", "I" >>), Str(<< "1", "/", "2" >>)}

Payloads ==
    [query : {Str(q_glioma)}, phase : PayloadPhases, disease : {NoneV},
     status : {NoneV}, min_participants : MinArgs,
     top_k : {IntV(k) : k \in 0..MaxTopK} \cup {NoneV}]
    \cup [query : {Str(<< >>)}, phase : {NoneV}, disease : {NoneV}, status : {NoneV},
          min_participants : {NoneV}, top_k : {NoneV}]

HybridSearch ==
    \E args \in HybridArgs :
        \E ranking \in CurrentRankings(args.top_k) :
            /\ Idle
            /\ ret' = [op |-> "hybrid_search", args |-> args] @@ hybrid_search(args, ranking)
            /\ UNCHANGED << store, registry, today, index_file, ids_file, builds >>

\* a caller loads the persisted artifact
LoadIndex ==
    /\ Idle
    /\ ret' = [op |-> "load_index"] @@ load_index
    /\ UNCHANGED << store, registry, today, index_file, ids_file, builds >>

SearchTrials ==
    \E payload \in Payloads :
        \E ranking \in CurrentRankings(_parse_payload(payload).top_k) :
            /\ Idle
            /\ ret' = [op |-> "search_trials", payload |-> payload]
                      @@ search_trials(payload, ranking)
            /\ UNCHANGED << store, registry, today, index_file, ids_file, builds >>

Init ==
    /\ store = << >>
    /\ registry = << >>
    /\ today = 0
    /\ index_file = NoFile
    /\ ids_file = NoFile
    /\ builds = 0
    /\ ret = NoRet

\* the upsert of trial rows: ingest_csv alone, auto-mapped, within one day
IngestRowsOnly == Ingest(IngestFiles, Datasets, {NoMapping})

NextIngest == IngestRowsOnly \/ Return

SpecIngest == Init /\ [][NextIngest]_vars

\* the upsert of the dataset descriptor: ingest_csv with and without an
\* explicit mapping, across days
IngestMapped == Ingest(RegistryFiles, Datasets, {NoMapping, SiteMapping})

NextRegistry == IngestMapped \/ NextDay \/ Return

SpecRegistry == Init /\ [][NextRegistry]_vars

IngestOneRow == Ingest(SearchFiles, Datasets, {NoMapping})

\* builds on a disk that may fail
BuildFailing == BuildIndex({DefaultModelDim, OtherModelDim}, {"none", "embed", "index", "ids"})

NextIndex == IngestOneRow \/ BuildFailing \/ Return

\* ingestion and index builds, with every way a build can break off
SpecIndex == Init /\ [][NextIndex]_vars

\* builds that run to completion with the default model
BuildDefault == BuildIndex({DefaultModelDim}, {"none"})

\* the trial A imported into either dataset, the trial B into the first
OneRowFile(row) == [exists |-> TRUE, cols |-> HeaderCanon, rows |-> << row >>]

IngestTrials ==
    \/ Ingest({OneRowFile(RowFull)}, Datasets, {NoMapping})
    \/ Ingest({OneRowFile(RowB)}, {d1}, {NoMapping})

\* a build whose ids file cannot be written
BuildIdsFailing == BuildIndex({DefaultModelDim}, {"ids"})

\* imports of files with alias-named columns, auto-mapped
IngestAliased == Ingest(AliasFiles, Datasets, {NoMapping})

NextMapping == IngestAliased \/ Return

SpecMapping == Init /\ [][NextMapping]_vars

(***************************************************************************)
(* _normalize_phase as a function of one cell, applied once and then to    *)
(* its own result.                                                         *)
(***************************************************************************)
RECURSIVE Spaces(_)
Spaces(n) == IF n = 0 THEN << >> ELSE << " " >> \o Spaces(n - 1)

\* texts that are no alias: the null-like words, a phase the table lacks, a
\* word, and the tokens the table maps to
UnrecognizedPhases ==
    {s_nan, s_none, s_null, phase_sp \o << "5" >>, << "x" >>}
    \cup {p[2] : p \in LoaderPhaseMapping}

\* every alias and unrecognized text in lower case, upper case and
\* capitalized, bare and with up to MaxPad blanks on each side; the numbers
\* pandas reads from an all-digit column; None and NaN
PhaseInputs ==
    {Str(Spaces(n) \o w \o Spaces(m)) :
        n \in 0..MaxPad, m \in 0..MaxPad,
        w \in UNION {{t, upper(t), capitalize(t)} :
                        t \in {p[1] : p \in LoaderPhaseMapping} \cup UnrecognizedPhases}}
    \cup {IntV(n) : n \in 1..5} \cup {NoneV, NaN}

InitPhase ==
    /\ store = << >>
    /\ registry = << >>
    /\ today = 0
    /\ index_file = NoFile
    /\ ids_file = NoFile
    /\ builds = 0
    /\ ret \in {[op |-> "phase_cell", raised |-> FALSE, x |-> x] : x \in PhaseInputs}

\* loaders.py:241: the cell goes through _normalize_phase
NormalizePhase ==
    /\ ret.op = "phase_cell"
    /\ ret' = [op |-> "_normalize_phase", raised |-> FALSE, x |-> ret.x,
               once |-> _normalize_phase(ret.x)]
    /\ UNCHANGED << store, registry, today, index_file, ids_file, builds >>

\* the result goes through _normalize_phase again
NormalizePhaseAgain ==
    /\ ret.op = "_normalize_phase"
    /\ ret' = [op |-> "_normalize_phase twice", raised |-> FALSE, x |-> ret.x,
               once |-> ret.once, twice |-> _normalize_phase(Str(ret.once))]
    /\ UNCHANGED << store, registry, today, index_file, ids_file, builds >>

NextPhase == NormalizePhase \/ NormalizePhaseAgain

SpecPhase == InitPhase /\ [][NextPhase]_vars

\* server.py:165 beside loaders.py:241: the text of one phase cell given as
\* the phase of a payload, canonicalized on the query side and on the ingest side
CanonPhase ==
    /\ ret.op = "phase_cell"
    /\ ret' = [op |-> "_canon_phase", raised |-> FALSE, x |-> ret.x,
               query_side |-> _canon_phase(ret.x),
               ingest_side |-> _normalize_phase(ret.x)]
    /\ UNCHANGED << store, registry, today, index_file, ids_file, builds >>

NextCanon == CanonPhase

SpecCanon == InitPhase /\ [][NextCanon]_vars

Next ==
    \/ IngestTrials
    \/ BuildDefault
    \/ BuildIdsFailing
    \/ LoadIndex
    \/ HybridSearch
    \/ SearchTrials
    \/ Return

Spec == Init /\ [][Next]_vars
(***************************************************************************)
(* The retrieval contract (spec sections 2 and 4), under Spec.             *)
(***************************************************************************)
\* a filter argument that was supplied
Supplied(x) == x.t # "None" /\ (x.t = "str" => x.s # << >>)

\* the '|'-separated tokens of a phase value, compared case-insensitively
PhaseTokens(s) == Range(split(upper(s), "|"))

PhaseOverlap(stored, wanted) == PhaseTokens(stored) \cap PhaseTokens(wanted) # {}

\* the strictly increasing maps of 1..m into 1..n
Increasing(m, n) == {f \in [1..m -> 1..n] : \A i, j \in 1..m : i < j => f[i] < f[j]}

\* the stored records a hit's identity string names
NamedBy(id) ==
    IF IsIn(id, ":")
    THEN {k \in DOMAIN store : k = split1(id, ":")}
    ELSE {k \in DOMAIN store : k[2] = id}

HybridReturned == ret.op = "hybrid_search" /\ ~ret.raised

\* C1: for every top_k >= 0, hybrid_search returns at most top_k records.
C1_AtMostTopK == HybridReturned => Len(ret.value) <= ret.args.top_k

\* C2: every record hybrid_search returns satisfies every supplied filter
\* (participants at least the minimum, disease and status contain the requested
\* text whatever the case, phase matches the requested phase), and when no
\* filter is supplied no resolvable candidate is left out short of top_k.
C2_ResultsSatisfyFilters ==
    HybridReturned =>
        LET a == ret.args
        IN  /\ \A i \in 1..Len(ret.value) :
                   LET r == ret.value[i]
                       stored == store[<< r.dataset_id, r.trial_id >>]
                   IN  /\ Supplied(a.min_participants) =>
                              r.n_participants >= a.min_participants.v
                       /\ Supplied(a.disease) => contains(lower(a.disease.s), lower(r.disease))
                       /\ Supplied(a.status) =>
                              contains(lower(a.status.s), lower(stored.status))
                       /\ Supplied(a.phase) => PhaseOverlap(r.phase, a.phase.s)
            /\ ( /\ ~Supplied(a.phase) /\ ~Supplied(a.disease)
                 /\ ~Supplied(a.status) /\ ~Supplied(a.min_participants)
                 /\ Len(ret.value) < a.top_k )
               => \A j \in 1..Len(ret.candidates) :
                      NamedBy(ret.candidates[j].id) # {} =>
                          \E i \in 1..Len(ret.value) :
                              /\ ret.value[i].score = ret.candidates[j].score
                              /\ << ret.value[i].dataset_id, ret.value[i].trial_id >>
                                     \in NamedBy(ret.candidates[j].id)

\* all four filters supplied, a record returned and another candidate left out
C2_Witness ==
    /\ HybridReturned
    /\ Supplied(ret.args.phase) /\ Supplied(ret.args.disease)
    /\ Supplied(ret.args.status) /\ Supplied(ret.args.min_participants)
    /\ Len(ret.value) = 1
    /\ Len(ret.candidates) = 2

\* results is candidates with some hits removed: same order, each its own score
ResultsFollowCandidates(results, candidates) ==
    \E f \in Increasing(Len(results), Len(candidates)) :
        \A i \in 1..Len(results) :
            /\ results[i].score = candidates[f[i]].score
            /\ << results[i].dataset_id, results[i].trial_id >> \in NamedBy(candidates[f[i]].id)

\* C3: the records hybrid_search returns are in the order of their hits in the
\* candidate list and carry their own hit's score; the list search_trials
\* returns is its hybrid_search result with some records removed, in order.
C3_OrderAndScoresKept ==
    /\ HybridReturned => ResultsFollowCandidates(ret.value, ret.candidates)
    /\ (ret.op = "search_trials" /\ ~ret.raised /\ ret.searched) =>
           /\ ResultsFollowCandidates(ret.hybrid, ret.candidates)
           /\ \E f \in Increasing(Len(ret.value), Len(ret.hybrid)) :
                  \A i \in 1..Len(ret.value) : ret.value[i] = ret.hybrid[f[i]]

\* search_trials returns two records, the best-scored one stored last
C3_Witness ==
    /\ ret.op = "search_trials" /\ ~ret.raised /\ ret.searched
    /\ Len(ret.value) = 2
    /\ ret.value[1].score > ret.value[2].score
    /\ ret.value[1].trial_id = ids_file.ids[2]
    /\ ret.value[1].trial_id # ret.value[2].trial_id

\* C4: with only a phase filter supplied and fewer than top_k records
\* returned, a candidate's record is returned exactly when its phase tokens
\* and the requested phase tokens share a token, whatever the case.
C4_PhaseTokenIntersection ==
    ( /\ HybridReturned
      /\ Supplied(ret.args.phase)
      /\ ~Supplied(ret.args.disease) /\ ~Supplied(ret.args.status)
      /\ ~Supplied(ret.args.min_participants)
      /\ Len(ret.value) < ret.args.top_k )
    => \A j \in 1..Len(ret.candidates) :
           \A k \in NamedBy(ret.candidates[j].id) :
               PhaseOverlap(store[k].phase, ret.args.phase.s)
               <=> \E i \in 1..Len(ret.value) :
                       /\ ret.value[i].score = ret.candidates[j].score
                       /\ << ret.value[i].dataset_id, ret.value[i].trial_id >> = k

\* C5: a search whose candidates hold a bare identity string stored under
\* more than one dataset_id raises no error.
C5_AmbiguousIdResolves ==
    ( /\ ret.op = "hybrid_search"
      /\ \E j \in 1..Len(ret.candidates) :
             /\ ~IsIn(ret.candidates[j].id, ":")
             /\ Cardinality(NamedBy(ret.candidates[j].id)) > 1 )
    => ~ret.raised

(***************************************************************************)
(* The ingestion contract (spec sections 2 and 4).                         *)
(***************************************************************************)
\* the step is a call of ingest_csv that returned a count
IngestReturned == Idle /\ ret'.op = "ingest_csv" /\ ~ret'.raised

\* the trial_id a row of HeaderCanon has after the normalization of
\* loaders.py:235, and as the Trial constructor stores it (loaders.py:282)
NormalizedId(row) == _coerce_str(ReadCell(row[1]))

StoredId(row) == _coerce_str(Str(NormalizedId(row)))

t_A == << "A" >>

\* C6: no stored Trial has an empty trial_id, whatever files were ingested.
C6_NoEmptyTrialId == \A k \in DOMAIN store : store[k].trial_id # << >>

\* C7: an import leaves, for each identity of its file, the normalized record
\* of the file's last row with that identity, in every field, and leaves every
\* other stored record (other datasets' included) as it was.  (Under SpecIngest.)
C7_LastImportWins ==
    [][IngestReturned =>
        \A trials \in {TrialsOfFile(ret'.file, ret'.mapping_arg, ret'.dataset_id)} :
            \A keys \in {{TrialKey(trials[i]) : i \in 1..Len(trials)}} :
                /\ DOMAIN store' = DOMAIN store \cup keys
                /\ \A k \in DOMAIN store' :
                       store'[k] =
                           IF k \in keys
                           THEN trials[CHOOSE i \in 1..Len(trials) :
                                          /\ TrialKey(trials[i]) = k
                                          /\ \A j \in (i + 1)..Len(trials) :
                                                 TrialKey(trials[j]) # k]
                           ELSE store[k]]_vars

\* trial A was stored in both datasets with all its fields, and an import of
\* the full row followed by the bare row has reset the one in its dataset
C7_Witness ==
    /\ ret.op = "ingest_csv" /\ ~ret.raised
    /\ ret.file.rows = << RowFull, RowBare >>
    /\ \E d \in Datasets \ {ret.dataset_id} :
           /\ << d, t_A >> \in DOMAIN store
           /\ store[<< d, t_A >>].disease = t_Glioma
           /\ ~store[<< d, t_A >>].extras.isNone
    /\ store[<< ret.dataset_id, t_A >>].disease = << >>
    /\ store[<< ret.dataset_id, t_A >>].status = << >>
    /\ store[<< ret.dataset_id, t_A >>].n_participants = 5
    /\ store[<< ret.dataset_id, t_A >>].extras.isNone

\* C8: every import that returns leaves exactly one descriptor for its
\* dataset, with the row count it returned (the rows whose identity is not
\* empty), the mapping it used and the day it ran, and leaves the other
\* datasets' descriptors alone; a failed import leaves the registry alone.
\* (Under SpecRegistry.)
C8_DescriptorOfLastImport ==
    [][(Idle /\ ret'.op = "ingest_csv") =>
        IF ret'.raised THEN registry' = registry
        ELSE LET d == ret'.dataset_id
                 rows == ret'.file.rows
             IN  /\ DOMAIN registry' = DOMAIN registry \cup {d}
                 /\ registry'[d].dataset_id = d
                 /\ registry'[d].row_count = ret'.value
                 /\ registry'[d].row_count =
                        Cardinality({i \in 1..Len(rows) : NormalizedId(rows[i]) # << >>})
                 /\ registry'[d].mapping_json =
                        IF ret'.mapping_arg.isNone THEN _auto_map_columns(ret'.file.cols)
                        ELSE ret'.mapping_arg.map
                 /\ registry'[d].ingested_at = today
                 /\ \A e \in DOMAIN registry \ {d} : registry'[e] = registry[e]]_vars

\* a dataset with a stored trial was imported again the next day, with an
\* explicit mapping, from a file without any identity
C8_Witness ==
    /\ ret.op = "ingest_csv" /\ ~ret.raised
    /\ ret.value = 0
    /\ Len(ret.file.rows) = MaxRows
    /\ \E k \in DOMAIN store : k[1] = ret.dataset_id
    /\ registry[ret.dataset_id].row_count = 0
    /\ registry[ret.dataset_id].ingested_at = 1
    /\ registry[ret.dataset_id].mapping_json = SiteMapping.map
    /\ \E e \in DOMAIN registry : e # ret.dataset_id /\ registry[e].row_count > 0

C10_ArtifactsFromOneBuild ==
    /\ index_file.exists <=> ids_file.exists
    /\ index_file.exists =>
           /\ index_file.build = ids_file.build
           /\ Len(index_file.vectors) = Len(ids_file.ids)

(***************************************************************************)
(* Loading the artifact (spec sections 3 and 4), under Spec.               *)
(***************************************************************************)
ArtifactAbsent == ~index_file.exists \/ ~ids_file.exists

\* C11: load_index raises FileNotFoundError exactly when the index file or
\* the identity list is absent and then hands over no part of the artifact;
\* hybrid_search and search_trials' search then raise the same error and
\* return no result.
C11_MissingArtifactRaises ==
    /\ ret.op = "load_index" =>
           IF ArtifactAbsent
           THEN ret = [op |-> "load_index", raised |-> TRUE, error |-> "FileNotFoundError"]
           ELSE ~ret.raised /\ ret.index = index_file /\ ret.ids = ids_file.ids
    /\ (ret.op = "hybrid_search" /\ ArtifactAbsent) =>
           /\ ret.raised /\ ret.error = "FileNotFoundError"
           /\ "value" \notin DOMAIN ret
    /\ (ret.op = "search_trials" /\ ret.searched /\ ArtifactAbsent) =>
           /\ ret.raised /\ ret.error = "FileNotFoundError"
           /\ "value" \notin DOMAIN ret

\* a search over a store with a trial, with the index file written and the
\* identity list never written
C11_Witness ==
    /\ ret.op = "hybrid_search" /\ ret.raised
    /\ index_file.exists /\ ~ids_file.exists
    /\ Len(index_file.vectors) > 0

(***************************************************************************)
(* The empty query (spec section 4, error policy), under Spec.             *)
(***************************************************************************)
IndexBuiltNonEmpty ==
    /\ index_file.exists /\ ids_file.exists
    /\ Len(index_file.vectors) > 0

\* C12: over a built index that holds at least one vector, hybrid_search
\* called with the empty query string raises nothing and returns the empty
\* list.
C12_EmptyQueryEmptyResult ==
    (ret.op = "hybrid_search" /\ ret.args.query = << >> /\ IndexBuiltNonEmpty) =>
        /\ ~ret.raised
        /\ ret.value = << >>

(***************************************************************************)
(* The build over no records (spec section 3), under SpecIndex.            *)
(***************************************************************************)
\* C13: a build over the empty record store that runs to completion reports
\* count 0 and the dimension of the embedding model, leaves an index of that
\* dimension with no vector and an empty identity list on disk, and a
\* load_index that follows succeeds.
C13_EmptyBuildUsesModelDim ==
    (ret.op = "build_index" /\ ~ret.raised /\ store = << >>) =>
        /\ ret.count = 0
        /\ ret.dim = ret.model_dim
        /\ index_file.exists /\ index_file.vectors = << >>
        /\ index_file.dim = ret.model_dim
        /\ ids_file.exists /\ ids_file.ids = << >>
        /\ ~load_index.raised

(***************************************************************************)
(* Stored identities over time (spec sections 1 to 4), under Spec.         *)
(***************************************************************************)
ReadOnlyOps == {"build_index", "load_index", "hybrid_search", "search_trials"}

\* C14: no step removes a stored (dataset_id, trial_id): the set of stored
\* identities only grows, and a step of build_index, load_index,
\* hybrid_search or search_trials leaves the record store as it was.
C14_IdentitiesNeverShrink ==
    [][/\ DOMAIN store \subseteq DOMAIN store'
       /\ ret'.op \in ReadOnlyOps => store' = store]_vars

\* an import that stored a further trial after a build over a non-empty store
C14_Witness ==
    /\ ret.op = "ingest_csv" /\ ~ret.raised
    /\ index_file.exists /\ Len(index_file.vectors) > 0
    /\ Cardinality(DOMAIN store) > Len(index_file.vectors)

(***************************************************************************)
(* The side payload of unmapped columns (spec sections 1 and 4), under     *)
(* SpecRegistry.                                                           *)
(***************************************************************************)
\* the source columns a mapping consumes as the source of a canonical field
ConsumedColumns(mapping, cols) ==
    {mapping[c] : c \in DOMAIN mapping} \cap Range(cols)

\* the source columns of row k that are neither canonical fields nor consumed
\* nor null, each with the value the file holds
UnconsumedCells(file, mapping, k) ==
    {<< col, ReadCell(file.rows[k][IndexIn(file.cols, col)]) >> :
        col \in {c \in Range(file.cols) \ (Range(canon_cols) \cup ConsumedColumns(mapping, file.cols)) :
                    ReadCell(file.rows[k][IndexIn(file.cols, c)]) # NaN}}

\* C15: after an import, the extras of each record the file stored are
\* exactly the row's non-null source columns that are neither canonical
\* fields nor the source of a canonical field under the mapping used, each
\* with its original value.
C15_ExtrasAreUnconsumedColumns ==
    (ret.op = "ingest_csv" /\ ~ret.raised) =>
        \A mapping \in {registry[ret.dataset_id].mapping_json} :
            \A k \in 1..Len(ret.file.rows) :
                \A id \in {StoredId(ret.file.rows[k])} :
                    (/\ id # << >>
                     /\ \A j \in (k + 1)..Len(ret.file.rows) :
                            StoredId(ret.file.rows[j]) # id)
                    => store[<< ret.dataset_id, id >>].extras.items
                           = UnconsumedCells(ret.file, mapping, k)

(***************************************************************************)
(* The auto-mapper (spec section 4, Schema Mapper), under SpecMapping.     *)
(***************************************************************************)
\* the positions in a field's alias list of the aliases that equal a column
\* name without regard to case
PresentAliases(canon, cols) ==
    {i \in 1..Len(aliases[canon]) :
        \E j \in 1..Len(cols) : col_lower(cols[j]) = aliases[canon][i]}

\* the value a canonical field has when no column supplies it
FieldDefault(canon) ==
    CASE canon = "n_participants" -> 0
      [] canon \in {"start_date", "end_date"} -> NoneV
      [] OTHER -> << >>

\* the cell of row k in the column named col
CellOf(file, k, col) == ReadCell(file.rows[k][IndexIn(file.cols, col)])

\* the identity row k is stored under when trial_id is mapped to column col
IdUnder(file, k, col) == _coerce_str(Str(_coerce_str(CellOf(file, k, col))))

\* C16: an import without an explicit mapping maps each canonical field to
\* the column that equals, without regard to case, the first alias of the
\* field's list that any column equals; a field none of whose aliases is a
\* column is not in the mapping, and every record the import stored has that
\* field's default: the empty string, 0 or no date.  The identity and the
\* disease of a stored record are those of the mapped columns.
C16_AutoMapFirstAlias ==
    (ret.op = "ingest_csv" /\ ~ret.raised /\ ret.mapping_arg.isNone) =>
        \A mapping \in {registry[ret.dataset_id].mapping_json} :
            /\ \A canon \in Range(canon_cols) :
                   \A present \in {PresentAliases(canon, ret.file.cols)} :
                       IF present = {} THEN canon \notin DOMAIN mapping
                       ELSE /\ canon \in DOMAIN mapping
                            /\ mapping[canon] \in Range(ret.file.cols)
                            /\ \E i \in present :
                                   /\ \A j \in present : i <= j
                                   /\ col_lower(mapping[canon]) = aliases[canon][i]
            /\ ret.value = IF "trial_id" \in DOMAIN mapping THEN Len(ret.file.rows) ELSE 0
            /\ "trial_id" \in DOMAIN mapping =>
                   \A k \in 1..Len(ret.file.rows) :
                       \A id \in {IdUnder(ret.file, k, mapping["trial_id"])} :
                           (\A j \in (k + 1)..Len(ret.file.rows) :
                                IdUnder(ret.file, j, mapping["trial_id"]) # id)
                           => /\ << ret.dataset_id, id >> \in DOMAIN store
                              /\ \A t \in {store[<< ret.dataset_id, id >>]} :
                                     /\ \A canon \in Range(canon_cols) \ DOMAIN mapping :
                                            t[canon] = FieldDefault(canon)
                                     /\ "disease" \in DOMAIN mapping =>
                                            t.disease = _coerce_str(
                                                CellOf(ret.file, k, mapping["disease"]))

\* an import that resolved trial_id to NCT_ID and phase to the phase column,
\* each over a later alias that is also a column, and left status unmapped
C16_Witness ==
    /\ ret.op = "ingest_csv" /\ ~ret.raised /\ ret.mapping_arg.isNone
    /\ ret.file.cols = HeaderAlias
    /\ Len(ret.file.rows) = MaxRows
    /\ registry[ret.dataset_id].mapping_json["trial_id"] = "NCT_ID"
    /\ registry[ret.dataset_id].mapping_json["phase"] = "phase"
    /\ "status" \notin DOMAIN registry[ret.dataset_id].mapping_json
    /\ \E k \in DOMAIN store : k[1] = ret.dataset_id /\ k[2] = << "N", "1" >>

(***************************************************************************)
(* The explicit mapping (spec section 4, Schema Mapper), under             *)
(* SpecRegistry.                                                           *)
(***************************************************************************)
\* C17: an import with an explicit mapping stores that mapping in the
\* descriptor as supplied, and in every record it stored a canonical field
\* the mapping names has the values of the named column (checked for
\* disease) while a canonical field the mapping does not name has its
\* default: the empty string, 0 or no date.
C17_ExplicitMappingOnly ==
    (ret.op = "ingest_csv" /\ ~ret.raised /\ ~ret.mapping_arg.isNone) =>
        \A mapping \in {ret.mapping_arg.map} :
            /\ registry[ret.dataset_id].mapping_json = mapping
            /\ \A k \in 1..Len(ret.file.rows) :
                   \A id \in {IdUnder(ret.file, k, mapping["trial_id"])} :
                       (/\ id # << >>
                        /\ \A j \in (k + 1)..Len(ret.file.rows) :
                               IdUnder(ret.file, j, mapping["trial_id"]) # id)
                       => \A t \in {store[<< ret.dataset_id, id >>]} :
                              /\ t.disease = _coerce_str(
                                     CellOf(ret.file, k, mapping["disease"]))
                              /\ \A canon \in Range(canon_cols) \ DOMAIN mapping :
                                     t[canon] = FieldDefault(canon)

(***************************************************************************)
(* The participant count (spec section 1, Canonical Record), under         *)
(* SpecMapping.                                                            *)
(***************************************************************************)
\* a text without any digit: no number can be read from it
NoDigit(s) == \A i \in 1..Len(s) : ~IsIn(Digits, s[i])

\* C18: every stored trial has an n_participants that is an integer and not
\* negative, whatever the source cells held, and a record stored from a row
\* whose participants cell holds no number has n_participants 0.
C18_ParticipantsNonNegative ==
    /\ \A key \in DOMAIN store :
           store[key].n_participants \in Int /\ store[key].n_participants >= 0
    /\ (ret.op = "ingest_csv" /\ ~ret.raised /\ ret.file.cols = HeaderAlias) =>
           \A k \in 1..Len(ret.file.rows) :
               (/\ NoDigit(ret.file.rows[k][IndexIn(HeaderAlias, "Enrollment")])
                /\ \A j \in (k + 1)..Len(ret.file.rows) :
                       IdUnder(ret.file, j, "NCT_ID") # IdUnder(ret.file, k, "NCT_ID"))
               => store[<< ret.dataset_id, IdUnder(ret.file, k, "NCT_ID") >>].n_participants = 0

(***************************************************************************)
(* Phase canonicalization (spec sections 2 and 6), under SpecPhase.        *)
(***************************************************************************)
\* C19: _normalize_phase applied to its own result gives that result again,
\* for every non-empty text: the aliases of the table in any case and with
\* blanks around them, and the texts the table does not hold.
C19_NormalizePhaseIdempotent ==
    (ret.op = "_normalize_phase twice" /\ ret.x.t = "str" /\ ret.x.s # << >>) =>
        ret.twice = ret.once

(***************************************************************************)
(* The identity list (spec section 3, Index Manager), under Spec.          *)
(***************************************************************************)
\* C20: when build_index has returned, entry i of the identity list names
\* exactly one stored record, the record whose text is embedded at position
\* i of the index, and resolving the entry as hybrid_search does yields that
\* record, also when one trial_id is stored under several dataset_ids.
C20_IdentityListNamesRecords ==
    (ret.op = "build_index" /\ ~ret.raised) =>
        /\ Len(ids_file.ids) = Len(index_file.vectors)
        /\ \A i \in 1..Len(ids_file.ids) :
               /\ NamedBy(ids_file.ids[i]) = {index_file.vectors[i].src}
               /\ \A f \in {_fetch_trial(store, ids_file.ids[i])} :
                      /\ ~f.raised /\ f.found
                      /\ f.trial = store[index_file.vectors[i].src]

(***************************************************************************)
(* The transaction boundary of an import (spec section 4), under           *)
(* SpecIngest.                                                             *)
(***************************************************************************)
\* C21: a call of ingest_csv that raises, for a missing file or for a
\* failure of the upsert, leaves every Trial record and every descriptor as
\* it was before the call; a call that returns has stored, in the one step
\* of its commit, a record for every row it counted and the descriptor of
\* the run with that count and the day of the run.
C21_AllOrNothing ==
    [][(Idle /\ ret'.op = "ingest_csv") =>
        IF ret'.raised
        THEN store' = store /\ registry' = registry
        ELSE \A trials \in {TrialsOfFile(ret'.file, ret'.mapping_arg, ret'.dataset_id)} :
                 /\ ret'.value = Len(trials)
                 /\ \A i \in 1..Len(trials) : TrialKey(trials[i]) \in DOMAIN store'
                 /\ ret'.dataset_id \in DOMAIN registry'
                 /\ registry'[ret'.dataset_id].row_count = Len(trials)
                 /\ registry'[ret'.dataset_id].ingested_at = today]_vars

\* an import of two rows with one new identity has failed at its commit,
\* into a dataset without a descriptor, beside another dataset's records
C21_Witness ==
    /\ ret.op = "ingest_csv" /\ ret.raised /\ ret.error = "IntegrityError"
    /\ Len(ret.file.rows) = MaxRows
    /\ ret.dataset_id \notin DOMAIN registry
    /\ \A k \in DOMAIN store : k[1] # ret.dataset_id
    /\ store # << >>

(***************************************************************************)
(* The two phase canonicalizers (spec sections 2 and 4), under SpecCanon.  *)
(***************************************************************************)
\* the text is an alias of the phase table, in any case and with blanks around
IsPhaseAlias(x) ==
    x.t = "str" /\ \E p \in LoaderPhaseMapping : p[1] = lower(strip(x.s))

\* C22: for every alias of the phase table, server._canon_phase returns the
\* token loaders._normalize_phase returns.
C22_CanonPhaseAgrees ==
    (ret.op = "_canon_phase" /\ IsPhaseAlias(ret.x)) =>
        ret.query_side = Str(ret.ingest_side)

====
